---- MODULE Spec2Model ----
(***************************************************************************)
(* A model of cider's core (src/cider/core.py): the JSON state store       *)
(* (_read_json, _modify_json, _write_json), the manifest mutators          *)
(* (install, rm, tap, untap, set_icon), the restore orchestrator and the   *)
(* symlink reconciler (relink, _make_symlink, _remove_dead_targets).       *)
(*                                                                         *)
(* Strings that the code takes apart are modelled by their parts: a path   *)
(* "/Users/u/.cider" is the sequence of its components, a template "~/"   *)
(* is <<"~", "">> (what split on the separator gives), a dependency        *)
(* reference "cask/b" is <<"cask", "b">>.                                  *)
(***************************************************************************)
EXTENDS Integers, Sequences, FiniteSets, TLC

VARIABLES
    cider,       \* the Cider object: its field `cask`
    bootstrap,   \* the manifest file bootstrap.json: a File
    pre,         \* the manifest file as it was when the last operation began
    last,        \* what the last manifest operation did and reported
    mutated,     \* list keys the engine has rewritten so far
    env,         \* the machine: OS version, Xcode, brew
    pc,          \* position of restore
    effects,     \* side effects of the run, in order
    casks,       \* restore's local list `casks`
    todo,        \* restore's loop position: formulas still to install
    err,         \* the exception that ended the run, "" if none
    fs,          \* filesystem entries at the paths relink touches
    targets,     \* the snapshot file symlink_targets.json: a TFile
    rl,          \* the state of a relink run
    io           \* one write of a state file, system call by system call

vars == <<cider, bootstrap, pre, last, mutated, env, pc, effects, casks, todo, err,
          fs, targets, rl, io>>

storeVars == <<cider, bootstrap, pre, last, mutated, io>>
restoreVars == <<env, pc, effects, casks, todo, err>>
relinkVars == <<fs, targets, rl>>

----------------------------------------------------------------------------
(* Bounds of the model. *)

MaxLen == 2        \* longest list of an initial manifest
MaxArgs == 1       \* most names given to one install / rm call

Names == {"a", "b"}
NameOrder == <<"a", "b", "c", "d">>
Apps == {"app"}
IconSrcs == {"i1", "i2"}
None == "<None>"

----------------------------------------------------------------------------
(* Python helpers. *)

RECURSIVE SeqsUpTo(_, _)
SeqsUpTo(S, n) ==
    IF n = 0 THEN {<<>>}
    ELSE LET shorter == SeqsUpTo(S, n - 1)
         IN  shorter \cup {Append(s, x) : s \in {t \in shorter : Len(t) = n - 1}, x \in S}

Range(s) == {s[i] : i \in 1..Len(s)}

Rank(n) == CHOOSE i \in 1..Len(NameOrder) : NameOrder[i] = n

\* str.__lt__ on the names of the model
StrLess(x, y) == Rank(x) < Rank(y)

RECURSIVE Insert(_, _)
Insert(s, x) ==
    IF s = <<>> THEN <<x>>
    ELSE IF StrLess(x, Head(s)) THEN <<x>> \o s
    ELSE <<Head(s)>> \o Insert(Tail(s), x)

RECURSIVE sorted(_)
sorted(s) == IF s = <<>> THEN <<>> ELSE Insert(sorted(SubSeq(s, 1, Len(s) - 1)), s[Len(s)])

IsSorted(s) == \A i \in 1..Len(s) - 1 : ~StrLess(s[i + 1], s[i])
NoDuplicates(s) == \A i, j \in 1..Len(s) : i # j => s[i] # s[j]

----------------------------------------------------------------------------
(* Documents and files. *)

\* The manifest document. `keys` are the keys present in the JSON object; a
\* field whose key is absent holds its empty default.
EmptyDoc ==
    [keys |-> {}, formulas |-> <<>>, casks |-> <<>>, taps |-> <<>>,
     icons |-> <<>>, dependencies |-> <<>>, symlinks |-> <<>>,
     before_scripts |-> <<>>, after_scripts |-> <<>>]

\* dict.get(key, [])
GetList(doc, key) == IF key \in doc.keys THEN doc[key] ELSE <<>>

\* A file: absent, or present with bytes. The bytes are a layout and the
\* document they parse to; "empty" is the zero-length file, which does not
\* parse; "canonical" is what json.dumps(indent=4, sort_keys=True) renders;
\* "hand" is any other rendering of the same document.
AbsentFile == [exists |-> FALSE, layout |-> "none", doc |-> EmptyDoc]
EmptyFile == [exists |-> TRUE, layout |-> "empty", doc |-> EmptyDoc]
Rendered(doc) == [exists |-> TRUE, layout |-> "canonical", doc |-> doc]
Parses(file) == file.exists /\ file.layout # "empty"

\* The transforms the callers hand to _modify_json, as data: the list
\* transforms of install / tap ("add") and of rm / untap ("remove"), wrapped
\* by _modify_bootstrap for a key, and the transform of set_icon.
AddTo(key, name) == [kind |-> "add", key |-> key, name |-> name, icon |-> ""]
RemoveFrom(key, name) == [kind |-> "remove", key |-> key, name |-> name, icon |-> ""]
IconOf(app, icon) == [kind |-> "set_icon", key |-> "icons", name |-> app, icon |-> icon]
IconGone(app) == [kind |-> "remove_icon", key |-> "icons", name |-> app, icon |-> ""]

\* lambda x: x + [formula] if formula not in x else x
AddTransform(x, name) == IF name \notin Range(x) THEN Append(x, name) ELSE x
\* lambda xs: [x for x in xs if x != formula]
RemoveTransform(xs, name) == SelectSeq(xs, LAMBDA x : x # name)

\* outer_transform of _modify_bootstrap
OuterTransform(doc, t) ==
    LET x == GetList(doc, t.key)
        new == IF t.kind = "add" THEN AddTransform(x, t.name) ELSE RemoveTransform(x, t.name)
    IN  [doc EXCEPT ![t.key] = sorted(new), !.keys = @ \cup {t.key}]

\* set_icon's transform: icons = bootstrap.get("icons", {}); icons[app] = icon
SetIconTransform(doc, app, icon) ==
    IF "icons" \in doc.keys
    THEN [doc EXCEPT !.icons =
            [a \in DOMAIN doc.icons \cup {app} |-> IF a = app THEN icon ELSE doc.icons[a]]]
    ELSE doc

\* remove_icon's transform: icons = bootstrap.get("icons", {}); del icons[app]
RemoveIconTransform(doc, app) ==
    [doc EXCEPT !.icons = [a \in DOMAIN doc.icons \ {app} |-> doc.icons[a]]]

\* del icons[app] raises KeyError when app is not a key of icons.
TransformRaises(t, doc) ==
    t.kind = "remove_icon" /\ ("icons" \notin doc.keys \/ t.name \notin DOMAIN doc.icons)

\* transform(copy.deepcopy(contents))
Transform(t, doc) ==
    CASE t.kind = "set_icon" -> SetIconTransform(doc, t.name, t.icon)
      [] t.kind = "remove_icon" -> RemoveIconTransform(doc, t.name)
      [] OTHER -> OuterTransform(doc, t)

\* The document _modify_json hands to the transform: the parsed file, or {}
\* for the file it has just created.
DocRead(file) == IF Parses(file) THEN file.doc ELSE EmptyDoc

\* _modify_json(path, transform): the file after it, what it returns and
\* the exception it raises.
_modify_json(file, t) ==
    LET new == Transform(t, DocRead(file))
    IN  IF Parses(file) /\ TransformRaises(t, file.doc)
        THEN [file |-> file, changed |-> FALSE, err |-> "KeyError"]
        ELSE IF ~file.exists /\ TransformRaises(t, EmptyDoc)
        THEN [file |-> EmptyFile, changed |-> FALSE, err |-> "KeyError"]
        ELSE IF ~file.exists
        THEN \* open(path, "w") has created the file; contents = {}
             IF new # EmptyDoc
             THEN [file |-> Rendered(new), changed |-> TRUE, err |-> ""]
             ELSE [file |-> EmptyFile, changed |-> FALSE, err |-> ""]
        ELSE IF ~Parses(file)
        THEN [file |-> file, changed |-> FALSE, err |-> "JSONError"]
        ELSE IF new # file.doc
        THEN [file |-> Rendered(new), changed |-> TRUE, err |-> ""]
        ELSE [file |-> file, changed |-> FALSE, err |-> ""]

_modify_bootstrap(file, t) == _modify_json(file, t)

----------------------------------------------------------------------------
(* The manifest mutators: install, rm, tap, untap, set_icon. *)

\* The loop `for formula in formulas: self._modify_bootstrap(...)`: the file
\* after each call and what each call returned; an exception ends the loop.
RECURSIVE MutateEach(_, _, _, _)
MutateEach(file, key, names, add) ==
    IF names = <<>> THEN [files |-> <<>>, changed |-> <<>>, err |-> ""]
    ELSE LET t == IF add THEN AddTo(key, Head(names)) ELSE RemoveFrom(key, Head(names))
             r == _modify_bootstrap(file, t)
         IN  IF r.err # "" THEN [files |-> <<>>, changed |-> <<>>, err |-> r.err]
             ELSE LET rest == MutateEach(r.file, key, Tail(names), add)
                  IN  [files |-> <<r.file>> \o rest.files,
                       changed |-> <<r.changed>> \o rest.changed,
                       err |-> rest.err]

\* What the caller prints for one _modify_bootstrap result.
Report(op, changed) ==
    CASE op = "install" -> IF changed THEN "Added to bootstrap" ELSE "warning: already bootstrapped"
      [] op = "rm"      -> IF changed THEN "Removed from bootstrap" ELSE "not found in bootstrap"
      [] op = "tap"     -> IF changed THEN "Added tap to bootstrap" ELSE "tap already bootstrapped"
      [] op = "untap"   -> IF changed THEN "Removed tap from bootstrap" ELSE "tap not found in bootstrapped"

FinalFile(file, r) == IF r.files = <<>> THEN file ELSE r.files[Len(r.files)]

NoOp == [op |-> "none", key |-> "", args |-> <<>>, files |-> <<>>, changed |-> <<>>,
         reports |-> <<>>, err |-> "", iconSet |-> FALSE]

ListOp(op, key, names, add) ==
    LET r == MutateEach(bootstrap, key, names, add)
    IN  /\ bootstrap' = FinalFile(bootstrap, r)
        /\ pre' = bootstrap
        /\ UNCHANGED <<cider, io>>
        /\ last' = [op |-> op, key |-> key, args |-> names, files |-> r.files,
                    changed |-> r.changed,
                    reports |-> [i \in 1..Len(r.changed) |-> Report(op, r.changed[i])],
                    err |-> r.err, iconSet |-> FALSE]
        /\ mutated' = mutated \cup {k \in {key} : \E i \in 1..Len(r.changed) : r.changed[i]}

ActiveKey(cask) == IF cask THEN "casks" ELSE "formulas"

\* Cider(cask).install(*names): brew.install runs first and does not touch
\* the manifest; then one _modify_bootstrap per name.
Install ==
    \E names \in SeqsUpTo(Names, MaxArgs) :
        /\ ListOp("install", ActiveKey(cider.cask), names, TRUE)
        /\ UNCHANGED <<restoreVars, relinkVars>>

Rm ==
    \E names \in SeqsUpTo(Names, MaxArgs) :
        /\ ListOp("rm", ActiveKey(cider.cask), names, FALSE)
        /\ UNCHANGED <<restoreVars, relinkVars>>

\* tap(None) lists the taps and leaves the manifest alone.
Tap ==
    \E tap \in Names \cup {None} :
        /\ ListOp("tap", "taps", IF tap = None THEN <<>> ELSE <<tap>>, TRUE)
        /\ UNCHANGED <<restoreVars, relinkVars>>

Untap ==
    \E tap \in Names :
        /\ ListOp("untap", "taps", <<tap>>, FALSE)
        /\ UNCHANGED <<restoreVars, relinkVars>>

\* set_icon: the manifest is modified first, then _apply_icon looks the
\* application up (found or not) and sets the icon.
SetIcon ==
    \E app \in Apps, icon \in IconSrcs, found \in BOOLEAN :
        LET r == _modify_json(bootstrap, IconOf(app, icon))
        IN  /\ bootstrap' = r.file
            /\ pre' = bootstrap
            /\ last' = [op |-> "set_icon", key |-> "icons", args |-> <<app, icon>>,
                        files |-> IF r.err = "" THEN <<r.file>> ELSE <<>>,
                        changed |-> IF r.err = "" THEN <<r.changed>> ELSE <<>>,
                        reports |-> <<>>,
                        err |-> IF r.err # "" THEN r.err
                                ELSE IF ~found THEN "AppMissingError" ELSE "",
                        iconSet |-> r.err = "" /\ found]
            /\ UNCHANGED <<cider, mutated, io>>
            /\ UNCHANGED <<restoreVars, relinkVars>>

\* remove_icon: the application is looked up first; then the manifest is
\* modified and the icon removed.
RemoveIcon ==
    \E app \in Apps, found \in BOOLEAN :
        LET r == _modify_json(bootstrap, IconGone(app))
            ran == found /\ r.err = ""
        IN  /\ bootstrap' = IF found THEN r.file ELSE bootstrap
            /\ pre' = bootstrap
            /\ last' = [op |-> "remove_icon", key |-> "icons", args |-> <<app>>,
                        files |-> IF ran THEN <<r.file>> ELSE <<>>,
                        changed |-> IF ran THEN <<r.changed>> ELSE <<>>,
                        reports |-> <<>>,
                        err |-> IF ~found THEN "AppMissingError" ELSE r.err,
                        iconSet |-> FALSE]
            /\ UNCHANGED <<cider, mutated, io>>
            /\ UNCHANGED <<restoreVars, relinkVars>>

----------------------------------------------------------------------------
(* One write of a state file, step by step: what is on disk at the path   *)
(* after each system call of _write_json and of _modify_json's write, and  *)
(* what another process reading the path at that moment gets.              *)

MaxBytes == 3      \* longest rendering of a document, in bytes

\* The renderings: json.dumps never renders the empty string.
Texts == SeqsUpTo({"x", "y"}, MaxBytes) \ {<<>>}

\* What is at a path: nothing, or a file with its bytes.
NoFile == [exists |-> FALSE, bytes |-> <<>>]
Bytes(text) == [exists |-> TRUE, bytes |-> text]
DiskFiles == {NoFile} \cup {Bytes(text) : text \in Texts}

IdleWrite ==
    [pc |-> "idle", op |-> "", old |-> NoFile, new |-> <<>>, disk |-> NoFile, seen |-> {}]

OtherVarsIdle ==
    UNCHANGED <<cider, bootstrap, pre, last, mutated, restoreVars, relinkVars>>

\* _write_json(path, contents) is called, or _modify_json(path, transform)
\* with a transform that changes the document; `new` is the rendering
\* json.dumps gives for the new contents.
BeginWrite ==
    /\ io.pc = "idle"
    /\ \E op \in {"_write_json", "_modify_json"}, old \in DiskFiles, new \in Texts :
          /\ op = "_modify_json" => old # Bytes(new)
          /\ io' = [pc |-> "open", op |-> op, old |-> old, new |-> new, disk |-> old,
                    seen |-> {}]
    /\ OtherVarsIdle

\* open(path, "w") of _write_json (line 455) creates or truncates the file.
\* open(path, "r+") of _modify_json (line 425) leaves the file as it is; when
\* the path is absent open(path, "w") (line 429) creates it empty.
OpenFile ==
    /\ io.pc = "open"
    /\ io' = [io EXCEPT
                !.pc = IF io.op = "_write_json" THEN "flush" ELSE "write",
                !.disk = IF io.op = "_write_json" \/ ~io.old.exists THEN Bytes(<<>>) ELSE @]
    /\ OtherVarsIdle

\* f.seek(0); f.write(json.dumps(...)) of _modify_json (lines 441-447): the
\* bytes go to the buffer of the file object, not to the disk.
BufferedWrite ==
    /\ io.pc = "write"
    /\ io' = [io EXCEPT !.pc = "flush"]
    /\ OtherVarsIdle

\* The bytes written at offset 0 over what the file holds.
Overwrite(bytes, new) == new \o SubSeq(bytes, Len(new) + 1, Len(bytes))

\* The buffer reaches the disk: at the close that ends _write_json's `with`
\* (lines 456-461), and in _modify_json at the flush that f.truncate() begins
\* with (line 448).
Flush ==
    /\ io.pc = "flush"
    /\ io' = [io EXCEPT
                !.pc = IF io.op = "_write_json" THEN "closed" ELSE "truncate",
                !.disk = Bytes(Overwrite(io.disk.bytes, io.new))]
    /\ OtherVarsIdle

\* f.truncate() cuts the file at the position after the written bytes
\* (line 448); f.close() follows (line 450).
Truncate ==
    /\ io.pc = "truncate"
    /\ io' = [io EXCEPT !.pc = "closed",
                        !.disk = Bytes(SubSeq(io.disk.bytes, 1, Len(io.new)))]
    /\ OtherVarsIdle

\* Another process reads the path while the write is under way.
ReadDuringWrite ==
    /\ io.pc \notin {"idle", "closed"}
    /\ io.disk \notin io.seen
    /\ io' = [io EXCEPT !.seen = @ \cup {io.disk}]
    /\ OtherVarsIdle

----------------------------------------------------------------------------
(* Paths and the filesystem. *)

HomeDir == <<"Users", "u">>
CiderDir == HomeDir \o <<".cider">>          \* self.cider_dir
SymlinkDir == CiderDir \o <<"symlinks">>     \* self.symlink_dir

SourceNames == {"zshrc", "vimrc"}
SourceOrders == {<<"zshrc", "vimrc">>, <<"vimrc", "zshrc">>}
Source(n) == SymlinkDir \o <<n>>

DestZshrc == HomeDir \o <<"zshrc">>
DestVimrc == HomeDir \o <<"vimrc">>
DestDotZshrc == HomeDir \o <<".zshrc">>
OtherLink == HomeDir \o <<"mylink">>         \* a path no rule maps to
ManagedFile == CiderDir \o <<"README">>      \* in cider_dir, not in symlink_dir
OutsideFile == HomeDir \o <<"notes">>        \* outside cider_dir
GonePath == HomeDir \o <<"gone">>            \* nothing is there

FsPaths == {Source(n) : n \in SourceNames} \cup
           {DestZshrc, DestVimrc, DestDotZshrc, OtherLink, ManagedFile, OutsideFile, GonePath}

\* The paths in the order Python's string comparison gives them.
PathOrder == <<ManagedFile, Source("vimrc"), Source("zshrc"), DestDotZshrc, GonePath,
               OtherLink, OutsideFile, DestVimrc, DestZshrc>>
PathRank(p) == CHOOSE i \in 1..Len(PathOrder) : PathOrder[i] = p

RECURSIVE InsertPath(_, _)
InsertPath(s, x) ==
    IF s = <<>> THEN <<x>>
    ELSE IF PathRank(x) < PathRank(Head(s)) THEN <<x>> \o s
    ELSE <<Head(s)>> \o InsertPath(Tail(s), x)

RECURSIVE sortedPaths(_)
sortedPaths(s) ==
    IF s = <<>> THEN <<>>
    ELSE InsertPath(sortedPaths(SubSeq(s, 1, Len(s) - 1)), s[Len(s)])

NoEntry == [kind |-> "none", to |-> <<>>]
FileEntry == [kind |-> "file", to |-> <<>>]
Link(p) == [kind |-> "link", to |-> p]

Lookup(f, p) == IF p \in DOMAIN f THEN f[p] ELSE NoEntry

IsPrefix(p, q) == Len(p) <= Len(q) /\ SubSeq(q, 1, Len(p)) = p

\* The directories: every proper prefix of a path of the model.
IsDirectory(p) == \E q \in FsPaths : IsPrefix(p, q) /\ p # q

RECURSIVE Resolve(_, _, _)
Resolve(f, p, fuel) ==
    IF fuel > 0 /\ Lookup(f, p).kind = "link"
    THEN Resolve(f, Lookup(f, p).to, fuel - 1)
    ELSE p

\* os.path.realpath, islink, lexists, exists
realpath(f, p) == Resolve(f, p, Cardinality(FsPaths))
islink(f, p) == Lookup(f, p).kind = "link"
lexists(f, p) == Lookup(f, p).kind # "none" \/ IsDirectory(p)
exists(f, p) == LET r == realpath(f, p) IN Lookup(f, r).kind = "file" \/ IsDirectory(r)

\* os.path.samefile stats both paths: OSError when one is not there.
samefile(f, p, q) ==
    IF exists(f, p) /\ exists(f, q)
    THEN [err |-> "", same |-> realpath(f, p) = realpath(f, q)]
    ELSE [err |-> "OSError", same |-> FALSE]

\* commonpath of two paths: their longest common run of leading components.
RECURSIVE commonpath(_, _)
commonpath(p, q) ==
    IF p = <<>> \/ q = <<>> \/ Head(p) # Head(q) THEN <<>>
    ELSE <<Head(p)>> \o commonpath(Tail(p), Tail(q))

\* os.path.expanduser, basename, dirname, join on split paths; a path that
\* ends in the separator has "" as its last component.
expanduser(t) == IF t # <<>> /\ Head(t) = "~" THEN HomeDir \o Tail(t) ELSE t
endsWithSep(t) == Len(t) > 1 /\ t[Len(t)] = ""
basename(p) == p[Len(p)]
dirname(p) == SubSeq(p, 1, Len(p) - 1)
join(p, b) == IF endsWithSep(p) THEN SubSeq(p, 1, Len(p) - 1) \o <<b>> ELSE p \o <<b>>

----------------------------------------------------------------------------
(* The symlink reconciler: relink, _make_symlink, _remove_dead_targets. *)

Event(kind, name, path) == [kind |-> kind, name |-> name, path |-> path]

\* glob.iglob(os.path.join(self.symlink_dir, source_glob)): the entries of
\* symlink_dir that match, in the order the directory lists them.
Matches(pattern, n) == pattern = "*" \/ pattern = n
Glob(f, pattern, order) ==
    SelectSeq([i \in 1..Len(order) |-> Source(order[i])],
              LAMBDA src : Matches(pattern, basename(src)) /\ Lookup(f, src).kind # "none")

\* relink that joins the basename of the source to every target.
SourceTargetAlwaysJoined(target, source) == join(expanduser(target), basename(source))

\* relink lines 275-280: the destination of a source under a rule's target.
SourceTarget(target, source) ==
    IF endsWithSep(target) \/ target = <<"~">>
    THEN join(expanduser(target), basename(source))
    ELSE expanduser(target)

\* The rounds of relink's outer loop still to run, one per rule of the
\* manifest: each begins with mkdir_p and the glob of the rule.
RelinkWork(rules) ==
    [i \in 1..Len(rules) |->
        [step |-> "mkdir", glob |-> rules[i].glob, target |-> rules[i].target,
         source |-> <<>>, dest |-> dirname(expanduser(rules[i].target))]]

\* The rounds of the inner loop for one rule: a _make_symlink per source the
\* glob yields.
LinkWork(f, rule, order) ==
    LET sources == Glob(f, rule.glob, order)
    IN  [i \in 1..Len(sources) |->
            [step |-> "link", glob |-> rule.glob, target |-> rule.target,
             source |-> sources[i], dest |-> SourceTarget(rule.target, sources[i])]]

\* `run` counts the relink runs of the behaviour and `first` is how the
\* first of them ended; `order` is the order the directory lists its entries
\* in; `matched` are the rounds of the inner loop the globs of this run gave.
IdleRelink ==
    [pc |-> "idle", force |-> FALSE, work |-> <<>>, previous |-> <<>>,
     new_targets |-> <<>>, results |-> <<>>, stale |-> {}, trashed |-> 0,
     attempts |-> 0, err |-> "", run |-> 0, first |-> "", order |-> <<>>,
     matched |-> <<>>]

\* The orders the directory may list its entries in, where a glob of the rules
\* can match more than one of them.
ListingOrders(rules) ==
    IF \E i \in 1..Len(rules) : rules[i].glob = "*" THEN SourceOrders
    ELSE {CHOOSE order \in SourceOrders : TRUE}

\* relink up to its loops: read the manifest's symlinks and the snapshot.
BeginRelink(force, orders) ==
    /\ rl.pc \in {"idle", "done", "error"}
    /\ LET begun == [IdleRelink EXCEPT !.force = force, !.run = rl.run + 1,
                                       !.first = IF rl.run = 1 THEN rl.pc ELSE rl.first]
       IN  IF ~bootstrap.exists
           THEN rl' = [begun EXCEPT !.pc = "error", !.err = "BootstrapMissingError"]
           ELSE IF ~Parses(bootstrap) \/ (targets.exists /\ ~Parses(targets))
           THEN rl' = [begun EXCEPT !.pc = "error", !.err = "JSONError"]
           ELSE \E order \in orders \cap ListingOrders(bootstrap.doc.symlinks) :
                   rl' = [begun EXCEPT
                            !.pc = "link", !.order = order,
                            !.work = RelinkWork(bootstrap.doc.symlinks),
                            !.previous = IF targets.exists THEN targets.doc ELSE <<>>]
    /\ UNCHANGED <<fs, targets>>

\* mkdir_p(os.path.dirname(os.path.expanduser(target))), then the glob of
\* the rule is listed (lines 271-273).
RelinkMkdir ==
    /\ rl.pc = "link"
    /\ rl.work # <<>>
    /\ Head(rl.work).step = "mkdir"
    /\ LET links == LinkWork(fs, Head(rl.work), rl.order)
       IN  rl' = [rl EXCEPT !.work = links \o Tail(@), !.matched = @ \o links]
    /\ effects' = Append(effects, Event("mkdir", "", Head(rl.work).dest))
    /\ UNCHANGED <<fs, targets>>
    /\ UNCHANGED <<storeVars, env, pc, casks, todo, err>>

\* One run of _make_symlink's body up to the trash step (lines 465-506):
\* the filesystem after it and how it ended.
Attempt(f, source, target) ==
    IF ~exists(f, source) THEN [fs |-> f, out |-> "SymlinkError"]
    ELSE IF ~lexists(f, target)
    THEN [fs |-> [f EXCEPT ![target] = Link(source)], out |-> "symlinked"]
    ELSE IF islink(f, target)
    THEN LET same == samefile(f, realpath(f, target), realpath(f, source))
         IN  IF same.err # "" THEN [fs |-> f, out |-> same.err]
             ELSE IF same.same THEN [fs |-> f, out |-> "already linked"]
             ELSE [fs |-> f, out |-> "wrong target"]
    ELSE [fs |-> f, out |-> "target exists"]

Raised(out) == out \in {"SymlinkError", "OSError"}
Linked(out) == out \in {"symlinked", "already linked"}

\* relink that records only the destinations _make_symlink linked.
RecordedIfLinked(new_targets, source_target, linked) ==
    IF linked THEN Append(new_targets, source_target) ELSE new_targets

\* new_targets.append(source_target), line 283: the value _make_symlink
\* returned is not looked at.
Recorded(new_targets, source_target, linked) == Append(new_targets, source_target)

\* _make_symlink returned for the current source: relink records its target.
\* `attempts` and `trashed` count the runs of its body and its calls of
\* move_to_trash for that source.
ItemDone(linked, out, attempts, trashed) ==
    [rl EXCEPT !.work = Tail(@),
               !.new_targets = Recorded(@, Head(rl.work).dest, linked),
               !.results = Append(@, [dest |-> Head(rl.work).dest, linked |-> linked,
                                      out |-> out, trashed |-> trashed,
                                      attempts |-> attempts]),
               !.trashed = 0, !.attempts = 0, !.pc = "link"]

MakeSymlink ==
    /\ rl.pc = "link"
    /\ rl.work # <<>>
    /\ Head(rl.work).step = "link"
    /\ LET item == Head(rl.work)
           r == Attempt(fs, item.source, item.dest)
       IN  /\ fs' = r.fs
           /\ effects' = Append(effects, Event(r.out, "", item.dest))
           /\ IF Raised(r.out)
              THEN rl' = [rl EXCEPT !.pc = "error", !.err = r.out]
              ELSE IF ~Linked(r.out) /\ rl.force
              THEN rl' = [rl EXCEPT !.pc = "trash", !.attempts = @ + 1]
              ELSE rl' = ItemDone(Linked(r.out), r.out, rl.attempts + 1, rl.trashed)
    /\ UNCHANGED targets
    /\ UNCHANGED <<storeVars, env, pc, casks, todo, err>>

\* osx.move_to_trash(target) of the force branch (lines 508-515). The trash
\* mover raises, or moves the entry away, or returns with an entry still (or
\* again) at the target; after it returns _make_symlink calls itself.
MaxTrash == 2      \* most calls of move_to_trash followed for one source

MoveToTrash ==
    /\ rl.pc = "trash"
    /\ rl.trashed < MaxTrash
    /\ LET dest == Head(rl.work).dest
       IN  \E outcome \in {"raises", "moved", "stays"} :
             /\ effects' = Append(effects, Event("move_to_trash", outcome, dest))
             /\ fs' = IF outcome = "moved" THEN [fs EXCEPT ![dest] = NoEntry] ELSE fs
             /\ rl' = IF outcome = "raises"
                      THEN ItemDone(FALSE, "trash failed", rl.attempts, rl.trashed + 1)
                      ELSE [rl EXCEPT !.pc = "link", !.trashed = @ + 1]
    /\ UNCHANGED targets
    /\ UNCHANGED <<storeVars, env, pc, casks, todo, err>>

\* relink without the subtraction of the new targets.
StaleAllPrevious(previous_targets, new_targets) == Range(previous_targets)

\* set(previous_targets) - set(new_targets), line 285
Stale(previous_targets, new_targets) == Range(previous_targets) \ Range(new_targets)

ComputeStale ==
    /\ rl.pc = "link"
    /\ rl.work = <<>>
    /\ rl' = [rl EXCEPT !.pc = "dead", !.stale = Stale(rl.previous, rl.new_targets)]
    /\ UNCHANGED <<fs, targets>>
    /\ UNCHANGED <<storeVars, restoreVars>>

\* The test of _remove_dead_targets (lines 138-144) on one target.
IsDeadTarget(f, target) ==
    /\ islink(f, target)
    /\ samefile(f, CiderDir, commonpath(CiderDir, realpath(f, target))).same

\* One round of the loop of _remove_dead_targets; the set is walked in any order.
RemoveDeadTarget ==
    /\ rl.pc = "dead"
    /\ \E target \in rl.stale :
         /\ rl' = [rl EXCEPT !.stale = @ \ {target}]
         /\ IF IsDeadTarget(fs, target)
            THEN /\ fs' = [fs EXCEPT ![target] = NoEntry]
                 /\ effects' = Append(effects, Event("removed", "", target))
            ELSE UNCHANGED <<fs, effects>>
    /\ UNCHANGED targets
    /\ UNCHANGED <<storeVars, env, pc, casks, todo, err>>

\* _write_json(path, contents): open(path, "w") and write the rendering.
_write_json(contents) == Rendered(contents)

\* mkdir_p of the cache directory and the write of the snapshot (lines 286-287)
WriteTargets ==
    /\ rl.pc = "dead"
    /\ rl.stale = {}
    /\ targets' = _write_json(sortedPaths(rl.new_targets))
    /\ effects' = Append(effects, Event("snapshot written", "", <<>>))
    /\ rl' = [rl EXCEPT !.pc = "done"]
    /\ UNCHANGED fs
    /\ UNCHANGED <<storeVars, env, pc, casks, todo, err>>

\* Cider.relink(force) called on its own.
Relink ==
    /\ pc = "idle"
    /\ rl.pc = "idle"
    /\ \E force \in BOOLEAN : BeginRelink(force, SourceOrders)
    /\ UNCHANGED <<storeVars, restoreVars>>

\* The same relink call once more, right after the first has ended.
RelinkAgain ==
    /\ pc = "idle"
    /\ rl.pc \in {"done", "error"}
    /\ rl.run = 1
    /\ BeginRelink(rl.force, IF rl.order = <<>> THEN SourceOrders ELSE {rl.order})
    /\ UNCHANGED <<storeVars, restoreVars>>

----------------------------------------------------------------------------
(* The restore orchestrator (lines 150-205). *)

Log(kind, name) == Event(kind, name, <<>>)

Raise(e) == pc' = "error" /\ err' = e

\* The test of line 153 on platform.mac_ver()[0], split at the dots.
UnsupportedOS(version) == version[2] < 9

\* The preflight with three separate `if` tests evaluated before any raise:
\* every check is made, the first failure is reported.
PreflightAllChecks(e) ==
    [checks |-> <<"macos_version", "xcode", "brew">>,
     err |-> IF UnsupportedOS(e.version) THEN "UnsupportedOSError"
             ELSE IF ~e.xcode THEN "XcodeMissingError"
             ELSE IF ~e.brew THEN "BrewMissingError" ELSE ""]

\* The preflight chain of lines 153-169: the checks it evaluates, in order,
\* and the error it raises.
Preflight(e) ==
    IF UnsupportedOS(e.version)
    THEN [checks |-> <<"macos_version">>, err |-> "UnsupportedOSError"]
    ELSE IF ~e.xcode
    THEN [checks |-> <<"macos_version", "xcode">>, err |-> "XcodeMissingError"]
    ELSE IF ~e.brew
    THEN [checks |-> <<"macos_version", "xcode", "brew">>, err |-> "BrewMissingError"]
    ELSE [checks |-> <<"macos_version", "xcode", "brew">>, err |-> ""]

\* restore with the tap loop moved below the formula loop.
ThenTapsAfterPackages(p) ==
    CASE p = "preflight" -> "read"
      [] p = "read" -> "before"
      [] p = "before" -> "formulas"
      [] p = "formulas" -> "taps"
      [] p = "taps" -> "symlinks"
      [] p = "symlinks" -> "relink"
      [] p = "relink" -> "icons"
      [] p = "icons" -> "after"
      [] p = "after" -> "done"

\* The order of restore's statements after the preflight (lines 171-205):
\* the position that follows position p.
Then(p) ==
    CASE p = "preflight" -> "read"
      [] p = "read" -> "before"
      [] p = "before" -> "taps"
      [] p = "taps" -> "formulas"
      [] p = "formulas" -> "symlinks"
      [] p = "symlinks" -> "relink"
      [] p = "relink" -> "icons"
      [] p = "icons" -> "after"
      [] p = "after" -> "done"

Each(kind, names) == [i \in 1..Len(names) |-> Log(kind, names[i])]

\* restore up to read_bootstrap (lines 151-169)
RestorePreflight ==
    /\ pc = "idle"
    /\ rl.pc = "idle"
    /\ LET r == Preflight(env)
       IN  /\ effects' = effects \o Each("check", r.checks)
           /\ IF r.err # "" THEN Raise(r.err)
              ELSE pc' = Then("preflight") /\ UNCHANGED err
    /\ UNCHANGED <<storeVars, relinkVars, env, casks, todo>>

\* read_bootstrap (lines 102-114): the exception it raises for a file.
read_bootstrap(file) ==
    IF ~file.exists THEN "BootstrapMissingError"
    ELSE IF ~Parses(file) THEN "JSONError"
    ELSE ""

\* self.read_bootstrap() and lines 172-174
ReadBootstrap ==
    /\ pc = "read"
    /\ effects' = Append(effects, Log("read_bootstrap", ""))
    /\ IF read_bootstrap(bootstrap) # ""
       THEN Raise(read_bootstrap(bootstrap)) /\ UNCHANGED <<casks, todo>>
       ELSE /\ casks' = GetList(bootstrap.doc, "casks")
            /\ todo' = GetList(bootstrap.doc, "formulas")
            /\ pc' = Then("read")
            /\ UNCHANGED err
    /\ UNCHANGED <<storeVars, relinkVars, env>>

BeforeScripts ==
    /\ pc = "before"
    /\ effects' = effects \o Each("before-script", bootstrap.doc.before_scripts)
    /\ pc' = Then("before")
    /\ UNCHANGED <<storeVars, relinkVars, env, casks, todo, err>>

Taps ==
    /\ pc = "taps"
    /\ effects' = effects \o Each("tap", bootstrap.doc.taps)
    /\ pc' = Then("taps")
    /\ UNCHANGED <<storeVars, relinkVars, env, casks, todo, err>>

\* A dependency value is one reference or a list of them (line 185); a
\* reference is the string split at "/".
DepList(deps) == IF deps.isList THEN deps.val ELSE <<deps.val>>
IsCaskDep(dep) == Len(dep) >= 2 /\ dep[1] = "cask"
CaskOf(dep) == dep[2]

IndexOf(xs, x) == CHOOSE i \in 1..Len(xs) : xs[i] = x /\ \A j \in 1..(i - 1) : xs[j] # x
DelAt(xs, i) == SubSeq(xs, 1, i - 1) \o SubSeq(xs, i + 1, Len(xs))

\* Lines 190-193 for the cask dependencies of one formula: the installs
\* made, the list `casks` after them and the exception that ended them.
RECURSIVE InstallDeps(_, _)
InstallDeps(deps, cs) ==
    IF deps = <<>> THEN [installs |-> <<>>, casks |-> cs, err |-> ""]
    ELSE LET cask == CaskOf(Head(deps))
             this == Log("install cask as dependency", cask)
         IN  IF cask \notin Range(cs)
             THEN [installs |-> <<this>>, casks |-> cs, err |-> "ValueError"]
             ELSE LET rest == InstallDeps(Tail(deps), DelAt(cs, IndexOf(cs, cask)))
                  IN  [installs |-> <<this>> \o rest.installs, casks |-> rest.casks,
                       err |-> rest.err]

\* One round of `for formula in formulas` (lines 182-195).
InstallFormula ==
    /\ pc = "formulas"
    /\ todo # <<>>
    /\ LET formula == Head(todo)
           dependencies == bootstrap.doc.dependencies
           deps == IF formula \in DOMAIN dependencies
                   THEN SelectSeq(DepList(dependencies[formula]), IsCaskDep)
                   ELSE <<>>
           r == InstallDeps(deps, casks)
       IN  /\ casks' = r.casks
           /\ IF r.err # ""
              THEN /\ effects' = effects \o r.installs
                   /\ Raise(r.err)
                   /\ UNCHANGED todo
              ELSE /\ effects' = effects \o r.installs \o <<Log("install formula", formula)>>
                   /\ todo' = Tail(todo)
                   /\ UNCHANGED <<pc, err>>
    /\ UNCHANGED <<storeVars, relinkVars, env>>

\* `for cask in casks` (lines 197-198)
InstallCasks ==
    /\ pc = "formulas"
    /\ todo = <<>>
    /\ effects' = effects \o Each("install cask", casks)
    /\ pc' = Then("formulas")
    /\ UNCHANGED <<storeVars, relinkVars, env, casks, todo, err>>

\* self.relink() (line 200)
RestoreRelink ==
    /\ pc = "symlinks"
    /\ BeginRelink(FALSE, SourceOrders)
    /\ pc' = Then("symlinks")
    /\ UNCHANGED <<storeVars, env, effects, casks, todo, err>>

RelinkRaised ==
    /\ pc = "relink"
    /\ rl.pc = "error"
    /\ Raise(rl.err)
    /\ UNCHANGED <<storeVars, relinkVars, env, effects, casks, todo>>

\* apply_defaults (lines 363-370) once relink has returned
ApplyDefaults ==
    /\ pc = "relink"
    /\ rl.pc = "done"
    /\ effects' = effects \o Each("defaults write", env.defaults)
    /\ pc' = Then("relink")
    /\ UNCHANGED <<storeVars, relinkVars, env, casks, todo, err>>

\* _apply_icon for the entries of `icons`: osx.path_for_app finds the
\* application or not, and the first one not found raises.
AppOrder == <<"app", "app2">>
IconApps(doc) == SelectSeq(AppOrder, LAMBDA a : a \in DOMAIN doc.icons)

RECURSIVE ApplyEach(_, _)
ApplyEach(apps, found) ==
    IF apps = <<>> THEN [sets |-> <<>>, err |-> ""]
    ELSE IF Head(apps) \notin found THEN [sets |-> <<>>, err |-> "AppMissingError"]
    ELSE LET rest == ApplyEach(Tail(apps), found)
         IN  [sets |-> <<Log("set_icon", Head(apps))>> \o rest.sets, err |-> rest.err]

\* apply_icons (lines 401-407): it reads the manifest with _read_json and no
\* fallback, so the IOError of a missing file is raised as it is.
apply_icons(file, found) ==
    IF ~file.exists THEN [sets |-> <<>>, err |-> "IOError"]
    ELSE IF ~Parses(file) THEN [sets |-> <<>>, err |-> "JSONError"]
    ELSE ApplyEach(IconApps(file.doc), found)

\* self.apply_icons() (line 202)
ApplyIcons ==
    /\ pc = "icons"
    /\ \E found \in SUBSET DOMAIN bootstrap.doc.icons :
          LET r == apply_icons(bootstrap, found)
          IN  /\ effects' = effects \o r.sets
              /\ IF r.err # "" THEN Raise(r.err)
                 ELSE pc' = Then("icons") /\ UNCHANGED err
    /\ UNCHANGED <<storeVars, relinkVars, env, casks, todo>>

AfterScripts ==
    /\ pc = "after"
    /\ effects' = effects \o Each("after-script", bootstrap.doc.after_scripts)
    /\ pc' = Then("after")
    /\ UNCHANGED <<storeVars, relinkVars, env, casks, todo, err>>

----------------------------------------------------------------------------
(* The operations that only read the manifest, called on their own:        *)
(* installed, run_scripts, apply_icons (relink and restore are above).     *)

\* What a call did: `last` holds the operation, what it returned (in
\* `reports`) and the exception it raised.
Called(op, key, returned, e) ==
    /\ pre' = bootstrap
    /\ last' = [op |-> op, key |-> key, args |-> <<>>, files |-> <<>>, changed |-> <<>>,
                reports |-> returned, err |-> e, iconSet |-> FALSE]
    /\ UNCHANGED <<cider, bootstrap, mutated, io>>
    /\ UNCHANGED <<env, pc, casks, todo, err, relinkVars>>

NothingCalled == pc = "idle" /\ rl.pc = "idle" /\ last = NoOp

\* installed (lines 289-292)
Installed ==
    /\ NothingCalled
    /\ LET e == read_bootstrap(bootstrap)
           key == ActiveKey(cider.cask)
       IN  Called("installed", key, IF e = "" THEN GetList(bootstrap.doc, key) ELSE <<>>, e)
    /\ UNCHANGED effects

\* run_scripts (lines 372-377)
RunScripts ==
    /\ NothingCalled
    /\ LET e == read_bootstrap(bootstrap)
       IN  /\ Called("run_scripts", "", <<>>, e)
           /\ effects' = IF e # "" THEN effects
                          ELSE effects \o Each("before-script", bootstrap.doc.before_scripts)
                                       \o Each("after-script", bootstrap.doc.after_scripts)

\* apply_icons (lines 401-407) called on its own
ApplyIconsCall ==
    /\ NothingCalled
    /\ \E found \in SUBSET DOMAIN bootstrap.doc.icons :
          LET r == apply_icons(bootstrap, found)
          IN  /\ Called("apply_icons", "icons", <<>>, r.err)
              /\ effects' = effects \o r.sets

----------------------------------------------------------------------------
(* Initial states. *)

OptLists(n) == {[has |-> FALSE, val |-> <<>>]} \cup
               {[has |-> TRUE, val |-> s] : s \in SeqsUpTo(Names, n)}

OptIcons == {[has |-> FALSE, val |-> <<>>], [has |-> TRUE, val |-> <<>>],
             [has |-> TRUE, val |-> [a \in Apps |-> "i1"]]}

\* The manifests a run starts from: the list of the active kind is any list
\* (unsorted and with duplicates too: the file is edited by hand), the taps
\* any short list.
StoreDocs(key) ==
    {[EmptyDoc EXCEPT
        !.keys = {k \in {key} : f.has} \cup {k \in {"taps"} : t.has} \cup
                 {k \in {"icons"} : i.has},
        ![key] = f.val, !.taps = t.val, !.icons = i.val] :
     f \in OptLists(MaxLen), t \in OptLists(1), i \in OptIcons}

StoreFiles(key) ==
    {AbsentFile} \cup
    {[exists |-> TRUE, layout |-> "hand", doc |-> d] : d \in StoreDocs(key)}

IdleEnv == [version |-> <<10, 9>>, xcode |-> TRUE, brew |-> TRUE, defaults |-> <<>>]

IdleRestore ==
    /\ env = IdleEnv
    /\ pc = "idle"
    /\ effects = <<>>
    /\ casks = <<>>
    /\ todo = <<>>
    /\ err = ""

InitStore ==
    /\ cider \in [cask : BOOLEAN]
    /\ bootstrap \in StoreFiles(ActiveKey(cider.cask))
    /\ pre = bootstrap
    /\ last = NoOp
    /\ mutated = {}
    /\ IdleRestore
    /\ fs = [p \in FsPaths |-> NoEntry]
    /\ targets = [exists |-> FALSE, layout |-> "none", doc |-> <<>>]
    /\ rl = IdleRelink
    /\ io = IdleWrite

\* The manifests of a restore run.
MaxFormulas == 2   \* longest formulas list of a restored manifest
MaxCasks == 2      \* longest casks list of a restored manifest

FormulaNames == {"a", "c"}
CaskNames == {"b", "d"}
Single(ref) == [isList |-> FALSE, val |-> ref]
Several(refs) == [isList |-> TRUE, val |-> refs]
DepValues == {Single(<<"cask", "b">>), Single(<<"b">>),
              Several(<<<<"cask", "b">>, <<"cask", "d">>>>)}
Dependencies == UNION {[D -> DepValues] : D \in SUBSET FormulaNames}

ZshrcRule == [glob |-> "zshrc", target |-> <<"~", "">>]

Extras ==
    {[before_scripts |-> <<>>, after_scripts |-> <<>>, taps |-> <<>>,
      symlinks |-> <<>>, icons |-> <<>>],
     [before_scripts |-> <<"s1", "s2">>, after_scripts |-> <<"s3", "s4">>,
      taps |-> <<"t1", "t2">>, symlinks |-> <<ZshrcRule>>,
      icons |-> [a \in Apps |-> "i1"]]}

PresentKeys(doc) ==
    {k \in {"formulas", "casks", "taps", "icons", "dependencies", "symlinks",
            "before_scripts", "after_scripts"} : doc[k] # <<>>}

WithKeys(doc) == [doc EXCEPT !.keys = PresentKeys(doc)]

RestoreDocs ==
    {WithKeys([EmptyDoc EXCEPT
        !.formulas = f, !.casks = c, !.dependencies = d,
        !.before_scripts = x.before_scripts, !.after_scripts = x.after_scripts,
        !.taps = x.taps, !.symlinks = x.symlinks, !.icons = x.icons]) :
     f \in SeqsUpTo(FormulaNames, MaxFormulas), c \in SeqsUpTo(CaskNames, MaxCasks),
     d \in Dependencies, x \in Extras}

Versions == {<<10, 8>>, <<10, 9>>, <<11, 0>>, <<9, 9>>}

Envs == [version : Versions, xcode : BOOLEAN, brew : BOOLEAN, defaults : {<<"d1", "d2">>}]

\* The files at the start of a restore: the sources are there (zshrc as a
\* file, or as a link in symlink_dir whose target is gone), the last run
\* linked vimrc, and at ~/zshrc there is nothing, a file or a link.
RestoreFs ==
    {[p \in FsPaths |->
        IF p \in {Source("vimrc"), ManagedFile, OutsideFile} THEN FileEntry
        ELSE IF p = Source("zshrc") THEN x[1]
        ELSE IF p = DestVimrc THEN Link(Source("vimrc"))
        ELSE IF p = DestZshrc THEN x[2]
        ELSE NoEntry] :
     x \in {<<FileEntry, NoEntry>>, <<FileEntry, FileEntry>>, <<FileEntry, Link(GonePath)>>,
            <<Link(GonePath), NoEntry>>}}

InitRestore ==
    /\ cider = [cask |-> FALSE]
    /\ bootstrap \in {AbsentFile} \cup
                     {[exists |-> TRUE, layout |-> "hand", doc |-> d] : d \in RestoreDocs}
    /\ pre = bootstrap
    /\ last = NoOp
    /\ mutated = {}
    /\ env \in Envs
    /\ pc = "idle"
    /\ effects = <<>>
    /\ casks = <<>>
    /\ todo = <<>>
    /\ err = ""
    /\ fs \in RestoreFs
    /\ targets = Rendered(<<DestVimrc>>)
    /\ rl = IdleRelink
    /\ io = IdleWrite

NextRestore ==
    \/ RestorePreflight \/ ReadBootstrap
    \/ BeforeScripts \/ Taps \/ InstallFormula \/ InstallCasks
    \/ RestoreRelink \/ RelinkMkdir \/ MakeSymlink \/ ComputeStale
    \/ RemoveDeadTarget \/ WriteTargets \/ RelinkRaised
    \/ ApplyDefaults \/ ApplyIcons \/ AfterScripts

SpecRestore == InitRestore /\ [][NextRestore]_vars

\* The manifests, filesystems and snapshots of a relink run.
Rule(glob, target) == [glob |-> glob, target |-> target]
RuleSets ==
    {<<>>, <<ZshrcRule>>, <<Rule("*", <<"~", "">>)>>, <<Rule("zshrc", <<"~", ".zshrc">>)>>,
     <<Rule("zshrc", <<"~">>)>>, <<ZshrcRule, Rule("vimrc", <<"~", "">>)>>,
     <<Rule("*", <<"~", ".zshrc">>)>>,
     <<Rule("vimrc", <<"~", "">>), Rule("zshrc", <<"~", ".cider", "symlinks", "vimrc">>)>>}

RelinkFiles ==
    {AbsentFile} \cup
    {[exists |-> TRUE, layout |-> "hand",
      doc |-> WithKeys([EmptyDoc EXCEPT !.symlinks = r])] : r \in RuleSets}

RelinkFs ==
    {[p \in FsPaths |->
        CASE p = Source("zshrc") -> FileEntry
          [] p = Source("vimrc") -> sv
          [] p = DestZshrc -> dz
          [] p = DestVimrc -> dv
          [] p = DestDotZshrc -> dd
          [] p = OtherLink -> ol
          [] p \in {ManagedFile, OutsideFile} -> FileEntry
          [] OTHER -> NoEntry] :
     sv \in {FileEntry, NoEntry, Link(GonePath)},
     dz \in {NoEntry, FileEntry, Link(Source("zshrc")), Link(Source("vimrc")),
             Link(GonePath), Link(OutsideFile)},
     dv \in {NoEntry, Link(Source("vimrc")), Link(ManagedFile)},
     dd \in {NoEntry, Link(OutsideFile)},
     ol \in {NoEntry, Link(ManagedFile), Link(Source("zshrc"))}}

\* No snapshot yet, an empty one, or one that lists every path a link may be
\* at (forged).
Snapshots ==
    {[exists |-> FALSE, layout |-> "none", doc |-> <<>>], Rendered(<<>>),
     Rendered(<<DestDotZshrc, OtherLink, DestVimrc, DestZshrc>>)}

InitRelink ==
    /\ cider = [cask |-> FALSE]
    /\ bootstrap \in RelinkFiles
    /\ pre = bootstrap
    /\ last = NoOp
    /\ mutated = {}
    /\ IdleRestore
    /\ fs \in RelinkFs
    /\ targets \in Snapshots
    /\ rl = IdleRelink
    /\ io = IdleWrite

NextRelink ==
    \/ Relink \/ RelinkAgain \/ RelinkMkdir \/ MakeSymlink \/ MoveToTrash \/ ComputeStale
    \/ RemoveDeadTarget \/ WriteTargets

SpecRelink == InitRelink /\ [][NextRelink]_vars

InitWrite ==
    /\ cider = [cask |-> FALSE]
    /\ bootstrap = AbsentFile
    /\ pre = bootstrap
    /\ last = NoOp
    /\ mutated = {}
    /\ IdleRestore
    /\ fs = [p \in FsPaths |-> NoEntry]
    /\ targets = [exists |-> FALSE, layout |-> "none", doc |-> <<>>]
    /\ rl = IdleRelink
    /\ io = IdleWrite

NextWrite == BeginWrite \/ OpenFile \/ BufferedWrite \/ Flush \/ Truncate \/ ReadDuringWrite

SpecWrite == InitWrite /\ [][NextWrite]_vars

\* The reading operations start from a manifest of a restore (here one
\* without dependencies), or none, on a machine that passes the preflight.
ReadDocs == {d \in RestoreDocs : d.dependencies = <<>> /\ Len(d.formulas) + Len(d.casks) <= 2}

InitRead ==
    /\ cider \in [cask : BOOLEAN]
    /\ bootstrap \in {AbsentFile} \cup
                     {[exists |-> TRUE, layout |-> "hand", doc |-> d] : d \in ReadDocs}
    /\ pre = bootstrap
    /\ last = NoOp
    /\ mutated = {}
    /\ env = [version |-> <<10, 9>>, xcode |-> TRUE, brew |-> TRUE, defaults |-> <<"d1">>]
    /\ pc = "idle"
    /\ effects = <<>>
    /\ casks = <<>>
    /\ todo = <<>>
    /\ err = ""
    /\ fs \in RestoreFs
    /\ targets = Rendered(<<DestVimrc>>)
    /\ rl = IdleRelink
    /\ io = IdleWrite

NextRead ==
    \/ Installed \/ RunScripts \/ ApplyIconsCall
    \/ Relink \/ MoveToTrash
    \/ NextRestore

SpecRead == InitRead /\ [][NextRead]_vars

NextStore == Install \/ Rm \/ Tap \/ Untap \/ SetIcon \/ RemoveIcon

SpecStore == InitStore /\ [][NextStore]_vars

----------------------------------------------------------------------------
(* Properties of the state store and the manifest mutators (SpecStore). *)

\* The calls of _modify_json the last operation made, and for call i the file
\* before it, the file after it and the document its transform returned.
Calls == 1..Len(last.files)
FileBefore(i) == IF i = 1 THEN pre ELSE last.files[i - 1]
FileAfter(i) == last.files[i]
IsListOp == last.op \in {"install", "rm", "tap", "untap"}
IsAdd == last.op \in {"install", "tap"}
Transformed(i) ==
    LET t == IF last.op = "set_icon" THEN IconOf(last.args[1], last.args[2])
             ELSE IF last.op = "remove_icon" THEN IconGone(last.args[1])
             ELSE IF IsAdd THEN AddTo(last.key, last.args[i])
             ELSE RemoveFrom(last.key, last.args[i])
    IN  Transform(t, DocRead(FileBefore(i)))
MemberBefore(i) == last.args[i] \in Range(GetList(DocRead(FileBefore(i)), last.key))
MemberAfter(i) == last.args[i] \in Range(GetList(DocRead(FileAfter(i)), last.key))

C3_UnchangedModifyKeepsExistingFile ==
    \A i \in Calls :
        FileBefore(i).exists /\ Transformed(i) = DocRead(FileBefore(i))
            => ~last.changed[i] /\ FileAfter(i) = FileBefore(i)

\* C4: install, rm, tap and untap are idempotent and report truthfully: adding
\* a name that is in the list and removing a name that is not leave the
\* manifest file unchanged and report "no change"; "changed" is reported only
\* when the name's membership changed.
C4_IdempotentTruthful ==
    IsListOp =>
        \A i \in Calls :
            /\ (IsAdd /\ MemberBefore(i)) \/ (~IsAdd /\ ~MemberBefore(i))
                   => ~last.changed[i] /\ FileAfter(i) = FileBefore(i)
            /\ last.changed[i] => MemberBefore(i) # MemberAfter(i)

\* C4 where the list is stored sorted: there the mutators are idempotent.
C4_IdempotentOnSortedList ==
    IsListOp =>
        \A i \in Calls :
            LET stored == DocRead(FileBefore(i))
            IN  last.key \in stored.keys /\ IsSorted(stored[last.key])
                    => /\ (IsAdd /\ MemberBefore(i)) \/ (~IsAdd /\ ~MemberBefore(i))
                           => ~last.changed[i] /\ FileAfter(i) = FileBefore(i)
                       /\ last.changed[i] => MemberBefore(i) # MemberAfter(i)

\* C5: every list field the engine has rewritten is stored sorted and without
\* a duplicate.
C5_SortedNoDuplicates ==
    \A key \in mutated :
        /\ IsSorted(GetList(bootstrap.doc, key))
        /\ NoDuplicates(GetList(bootstrap.doc, key))

\* C5, the half that holds: a rewritten list is stored sorted.
C5_Sorted == \A key \in mutated : IsSorted(GetList(bootstrap.doc, key))

\* C14: a modify call that returns normally on a path that did not exist
\* leaves a file there that holds a parseable document, so that a load of
\* the path right after succeeds.
C14_CreatedFileParses ==
    \A i \in Calls :
        ~FileBefore(i).exists => FileAfter(i).exists /\ Parses(FileAfter(i))

\* C14 for the calls whose transform changed the document.
C14_ChangedCreatedFileParses ==
    \A i \in Calls :
        ~FileBefore(i).exists /\ last.changed[i] => Parses(FileAfter(i))

\* The icons mapping a load of the manifest would give.
StoredIcons == IF Parses(bootstrap) /\ "icons" \in bootstrap.doc.keys
               THEN bootstrap.doc.icons ELSE <<>>

ReturnedNormally(op) == last.op = op /\ last.err = ""

\* C16: after set_icon(app, icon) has returned normally the manifest maps app
\* to icon, whatever the manifest was before (no icons key, no file); after
\* remove_icon(app) has returned normally it has no entry for app.
C16_IconPersisted ==
    /\ ReturnedNormally("set_icon") =>
          /\ last.args[1] \in DOMAIN StoredIcons
          /\ StoredIcons[last.args[1]] = last.args[2]
    /\ ReturnedNormally("remove_icon") => last.args[1] \notin DOMAIN StoredIcons

\* C16 for a manifest that had an icons key before the call.
C16_IconPersistedUnderIconsKey ==
    Parses(pre) /\ "icons" \in pre.doc.keys =>
        /\ ReturnedNormally("set_icon") =>
              /\ last.args[1] \in DOMAIN StoredIcons
              /\ StoredIcons[last.args[1]] = last.args[2]
        /\ ReturnedNormally("remove_icon") => last.args[1] \notin DOMAIN StoredIcons

\* C17: set_icon looks the application up before anything else: when it is
\* not found, set_icon raises AppMissingError, the manifest file is as it was
\* and the icon is not set (stated for a manifest that has an icons key).
C17_MissingAppLeavesManifest ==
    /\ last.op = "set_icon" /\ last.err = "AppMissingError"
    /\ Parses(pre) /\ "icons" \in pre.doc.keys
    => bootstrap = pre /\ ~last.iconSet

\* C17, the half that holds: with the application not found the icon setter
\* is not called.
C17_MissingAppSetsNoIcon ==
    last.op = "set_icon" /\ last.err = "AppMissingError" => ~last.iconSet

----------------------------------------------------------------------------
(* Properties of the symlink reconciler (SpecRelink). *)

AtLinkStep == rl.pc = "link" /\ rl.work # <<>> /\ Head(rl.work).step = "link"

\* The real path of `target` lies in the managed symlink root.
InSymlinkDir(f, target) == IsPrefix(SymlinkDir, realpath(f, target))
InCiderDir(f, target) == IsPrefix(CiderDir, realpath(f, target))

Deleted(target) == rl.pc = "dead" /\ lexists(fs, target) /\ ~lexists(fs', target)

\* C1: relink deletes a stale target only if it is a symlink whose real path
\* lies inside the managed symlink root, the directory the sources are drawn
\* from, whatever the previous snapshot lists.
C1_DeletesOnlyLinksIntoSymlinkDir ==
    [][\A target \in FsPaths :
          Deleted(target) => islink(fs, target) /\ InSymlinkDir(fs, target)]_vars

\* C1 with the directory the code tests: the real path lies inside cider_dir.
C1_DeletesOnlyLinksIntoCiderDir ==
    [][\A target \in FsPaths :
          Deleted(target) => /\ target \in Range(rl.previous) \ Range(rl.new_targets)
                             /\ islink(fs, target)
                             /\ InCiderDir(fs, target)]_vars

\* The destination of the current source is taken by something else than a
\* link to that source: a file, or a link that resolves elsewhere.
Conflict ==
    LET item == Head(rl.work)
    IN  /\ exists(fs, item.source)
        /\ lexists(fs, item.dest)
        /\ ~islink(fs, item.dest) \/ realpath(fs, item.dest) # realpath(fs, item.source)

\* C2: without force, _make_symlink on a taken destination leaves the
\* destination as it was, returns "not linked", and relink goes on to the
\* next link.
C2_ConflictWithoutForce ==
    [][AtLinkStep /\ ~rl.force /\ Conflict =>
          /\ fs' = fs
          /\ rl'.pc = "link"
          /\ rl'.work = Tail(rl.work)
          /\ Len(rl'.results) = Len(rl.results) + 1
          /\ ~rl'.results[Len(rl'.results)].linked]_vars

\* C2, the half that holds: without force nothing at a taken destination is
\* removed or replaced.
C2_TakenDestinationUntouched ==
    [][AtLinkStep /\ ~rl.force /\ lexists(fs, Head(rl.work).dest) => fs' = fs]_vars

\* A rule of the manifest puts its links inside the managed root itself.
DestInRoot ==
    \E i \in 1..Len(bootstrap.doc.symlinks) :
        IsPrefix(SymlinkDir, expanduser(bootstrap.doc.symlinks[i].target))

\* A step of the second of two relink runs leaves every link, the manifest
\* and, when the first run wrote the snapshot, the snapshot as they are.
SecondRunStepChangesNothing ==
    /\ fs' = fs
    /\ bootstrap' = bootstrap
    /\ rl.first = "done" => targets' = targets

\* The first run returned normally and the trash mover moved whatever it was
\* asked to move.
FirstRunClean ==
    /\ rl.first = "done"
    /\ \A i \in 1..Len(effects) :
          effects[i].kind = "move_to_trash" => effects[i].name = "moved"

MatchedDestinations ==
    [i \in 1..Len(rl.matched) |->
        LET target == rl.matched[i].target
            name == basename(rl.matched[i].source)
        IN  IF target[Len(target)] = "" \/ target = <<"~">>
            THEN join(expanduser(target), name)
            ELSE expanduser(target)]

Occurrences(s, x) == Cardinality({i \in 1..Len(s) : s[i] = x})
SameEntries(s, t) == \A x \in Range(s) \cup Range(t) : Occurrences(s, x) = Occurrences(t, x)
InOrder(s) == \A i, j \in 1..Len(s) : i < j => PathRank(s[i]) <= PathRank(s[j])

\* C18: when relink has returned normally the snapshot file holds, in sorted
\* order, the destination of every matched source of every rule, whether its
\* link was made, was there already or was left in conflict; and the snapshot
\* file changes in one step only, the write that follows the dead-link
\* removal.
C18_SnapshotIsAllDestinations ==
    /\ [](rl.pc = "done" =>
            /\ Parses(targets)
            /\ SameEntries(targets.doc, MatchedDestinations)
            /\ InOrder(targets.doc))
    /\ [][targets' # targets =>
            rl.pc = "dead" /\ rl.stale = {} /\ rl'.pc = "done"]_vars

\* A run has returned normally after it made one link and left another
\* destination in conflict, and after it removed a dead link.
C18_Witness ==
    /\ rl.pc = "done" /\ rl.run = 1
    /\ \E i, j \in 1..Len(rl.results) :
          /\ rl.results[i].out = "symlinked"
          /\ ~rl.results[j].linked
    /\ \E k \in 1..Len(effects) : effects[k].kind = "removed"

\* The manifest of the example: symlinks = {"zshrc": "~/"}.
ZshrcToHome ==
    Parses(bootstrap) /\ bootstrap.doc.symlinks = <<Rule("zshrc", <<"~", "">>)>>

\* C19: the destination of a matched source is the rule's target joined with
\* the basename of the source when the target ends in a separator or is "~",
\* and the home-expanded target itself otherwise. With symlinks =
\* {"zshrc": "~/"} and a file zshrc in the managed root, relink makes the
\* link <home>/zshrc -> <managed root>/zshrc where nothing is in the way, and
\* the snapshot it writes is ["<home>/zshrc"].
C19_DestinationRule ==
    /\ [](\A i \in 1..Len(rl.matched) : rl.matched[i].dest = MatchedDestinations[i])
    /\ [][ZshrcToHome /\ AtLinkStep /\ ~lexists(fs, HomeDir \o <<"zshrc">>) =>
            fs'[HomeDir \o <<"zshrc">>] = Link(SymlinkDir \o <<"zshrc">>)]_vars
    /\ [](ZshrcToHome /\ rl.pc = "done" =>
            targets = Rendered(<<HomeDir \o <<"zshrc">>>>))

\* relink has returned with the manifest of the example after it made the
\* link at <home>/zshrc.
C19_Witness ==
    /\ ZshrcToHome /\ rl.pc = "done" /\ rl.run = 1
    /\ Len(rl.results) = 1 /\ rl.results[1].out = "symlinked"
    /\ rl.results[1].dest = HomeDir \o <<"zshrc">>
    /\ fs[HomeDir \o <<"zshrc">>] = Link(SymlinkDir \o <<"zshrc">>)
    /\ targets = Rendered(<<HomeDir \o <<"zshrc">>>>)

\* C20: with force, _make_symlink for one source and destination calls
\* move_to_trash at most once and runs its body at most twice, whatever is at
\* the destination after the trash mover returned.
C20_TrashOnceAttemptTwice ==
    /\ rl.trashed <= 1 /\ rl.attempts <= 2
    /\ \A i \in 1..Len(rl.results) :
          rl.results[i].trashed <= 1 /\ rl.results[i].attempts <= 2

\* C20, the half that holds: when the trash mover raises, the link is given
\* up as not linked and relink goes on to the next source.
C20_FailedTrashSkipsLink ==
    [][rl.pc = "trash" /\ effects' # effects /\ effects'[Len(effects')].name = "raises" =>
          /\ fs' = fs
          /\ rl'.pc = "link"
          /\ rl'.work = Tail(rl.work)
          /\ ~rl'.results[Len(rl'.results)].linked]_vars

----------------------------------------------------------------------------
(* Properties of restore (SpecRestore). *)

Manifest == bootstrap.doc
OfKind(kind) == SelectSeq(effects, LAMBDA e : e.kind = kind)
NamesOf(kind) == [i \in 1..Len(OfKind(kind)) |-> OfKind(kind)[i].name]
Count(kind, name) == Cardinality({i \in 1..Len(effects) :
                                    effects[i].kind = kind /\ effects[i].name = name})
CaskInstalls(b) == Count("install cask as dependency", b) + Count("install cask", b)

CaskDeps(formula) ==
    IF formula \in DOMAIN Manifest.dependencies
    THEN {CaskOf(d) : d \in {x \in Range(DepList(Manifest.dependencies[formula])) : IsCaskDep(x)}}
    ELSE {}

\* (major, minor) < (10, 9)
BelowMinimum(version) == version[1] < 10 \/ (version[1] = 10 /\ version[2] < 9)

\* A run on a supported OS version, of a manifest that lists no formula and
\* no cask twice.
PlainManifest ==
    /\ ~BelowMinimum(env.version)
    /\ NoDuplicates(Manifest.formulas)
    /\ NoDuplicates(Manifest.casks)

\* C6: a cask that is listed in casks and is a "cask/b" dependency of one or
\* more formulas is installed as a cask once in a restore run, never twice.
C6_DependencyCaskInstalledOnce ==
    \A b \in CaskNames :
        /\ PlainManifest
        /\ b \in Range(Manifest.casks)
        /\ \E formula \in Range(Manifest.formulas) : b \in CaskDeps(formula)
        => /\ CaskInstalls(b) <= 1
           /\ pc = "done" => CaskInstalls(b) = 1

\* C6 for a cask that one formula only depends on.
C6_OneDependentFormula ==
    \A b \in CaskNames :
        /\ PlainManifest
        /\ b \in Range(Manifest.casks)
        /\ Cardinality({formula \in Range(Manifest.formulas) : b \in CaskDeps(formula)}) = 1
        => /\ CaskInstalls(b) <= 1
           /\ pc = "done" => CaskInstalls(b) = 1

Before(kind1, name1, kind2, name2) ==
    \E i, j \in 1..Len(effects) :
        /\ i < j
        /\ effects[i].kind = kind1 /\ effects[i].name = name1
        /\ effects[j].kind = kind2 /\ effects[j].name = name2

FormulasOver ==
    \/ pc \in {"symlinks", "relink", "icons", "after", "done"}
    \/ pc = "error" /\ err = "ValueError"

\* C7: once restore is through the formulas, every formula with a "cask/<name>"
\* dependency has had that cask installed and then has been installed itself,
\* whether or not the name is listed in casks.
C7_DependencyThenFormula ==
    FormulasOver /\ PlainManifest =>
        \A formula \in Range(Manifest.formulas) :
            \A b \in CaskDeps(formula) :
                Before("install cask as dependency", b, "install formula", formula)

\* C7 where every dependency is listed in casks and no two formulas share one.
C7_ListedDependencyThenFormula ==
    /\ FormulasOver
    /\ PlainManifest
    /\ \A f \in Range(Manifest.formulas) : CaskDeps(f) \subseteq Range(Manifest.casks)
    /\ \A f, g \in Range(Manifest.formulas) : f # g => CaskDeps(f) \cap CaskDeps(g) = {}
    => \A formula \in Range(Manifest.formulas) :
           \A b \in CaskDeps(formula) :
               Before("install cask as dependency", b, "install formula", formula)

PhaseOf(kind) ==
    CASE kind \in {"check", "read_bootstrap"} -> 0
      [] kind = "before-script" -> 1
      [] kind = "tap" -> 2
      [] kind \in {"install cask as dependency", "install formula"} -> 3
      [] kind = "install cask" -> 4
      [] kind = "defaults write" -> 6
      [] kind = "set_icon" -> 7
      [] kind = "after-script" -> 8
      [] OTHER -> 5      \* the steps of relink

\* C8: in a restore run that completes the effects come phase by phase:
\* before-scripts in manifest order, taps, formulas with their dependencies,
\* the remaining casks, the symlinks, the preferences, the icons, and the
\* after-scripts in manifest order.
C8_PhasesInOrder ==
    pc = "done" =>
        /\ \A i, j \in 1..Len(effects) :
              i < j => PhaseOf(effects[i].kind) <= PhaseOf(effects[j].kind)
        /\ NamesOf("before-script") = Manifest.before_scripts
        /\ NamesOf("tap") = Manifest.taps
        /\ NamesOf("install formula") = Manifest.formulas
        /\ NamesOf("install cask") = casks
        /\ Len(OfKind("snapshot written")) = 1
        /\ NamesOf("defaults write") = env.defaults
        /\ NamesOf("after-script") = Manifest.after_scripts

C8_Witness ==
    /\ pc = "done"
    /\ \A ph \in 1..8 : \E i \in 1..Len(effects) : PhaseOf(effects[i].kind) = ph
    /\ Len(Manifest.before_scripts) > 1
    /\ \E i \in 1..Len(effects) : effects[i].kind = "install cask as dependency"

PreflightErrors == {"UnsupportedOSError", "XcodeMissingError", "BrewMissingError"}
CheckOrder == <<"macos_version", "xcode", "brew">>
Checked(n) == effects = Each("check", SubSeq(CheckOrder, 1, n))

\* C9: the preflight checks run in the order OS version, Xcode, brew; the
\* first that fails raises its own error, the checks after it are not made,
\* and the run reads no manifest and has no other effect.
C9_PreflightShortCircuits ==
    /\ \E n \in 0..3 : NamesOf("check") = SubSeq(CheckOrder, 1, n)
    /\ err = "UnsupportedOSError" => Checked(1)
    /\ err = "XcodeMissingError" => Checked(2) /\ ~env.xcode
    /\ err = "BrewMissingError" => Checked(3) /\ env.xcode /\ ~env.brew
    /\ err \in PreflightErrors =>
          pc = "error" /\ rl = IdleRelink /\ casks = <<>> /\ todo = <<>>
    /\ pc # "idle" /\ err \notin PreflightErrors =>
          /\ ~UnsupportedOS(env.version) /\ env.xcode /\ env.brew
          /\ SubSeq(effects, 1, 3) = Each("check", CheckOrder)

C9_Witness ==
    /\ err = "XcodeMissingError"
    /\ ~env.brew
    /\ Checked(2)

\* C10: the OS check raises UnsupportedOSError exactly for the versions below
\* 10.9, the major and minor numbers compared as a pair.
C10_RaisesIffBelowMinimum ==
    pc # "idle" => (err = "UnsupportedOSError" <=> BelowMinimum(env.version))

\* C10 within major version 10, where the minor number decides.
C10_RaisesIffBelowMinimumInTen ==
    pc # "idle" /\ env.version[1] = 10 =>
        (err = "UnsupportedOSError" <=> BelowMinimum(env.version))

\* The failures of one item of the symlink phase and of the icon phase.
ItemFailures == {"SymlinkError", "AppMissingError"}

\* C11: a symlink source that does not exist or an icon whose application is
\* not found does not abort the phase: relink still writes the snapshot and
\* restore goes on, so no run on a supported OS version ends with the item's error.
C11_ItemFailureDoesNotAbort ==
    ~BelowMinimum(env.version) =>
        /\ rl.pc = "error" => rl.err \notin ItemFailures
        /\ pc = "error" => err \notin ItemFailures

\* What the code does with a failed item: it ends the run there, with the
\* later phases not run (and for a symlink the snapshot not written).
C11_ItemFailureEndsRun ==
    pc = "error" /\ err \in ItemFailures =>
        /\ OfKind("after-script") = <<>>
        /\ err = "SymlinkError" =>
              OfKind("snapshot written") = <<>> /\ OfKind("set_icon") = <<>>

----------------------------------------------------------------------------
(* Properties of one write of a state file (SpecWrite). *)

\* C13: a write of a state file is atomic for a concurrent reader: at every
\* step of the write a reader of the path gets the complete old file or the
\* complete new document, never an empty file, a prefix, or the new bytes
\* followed by a tail of the old ones (stated for a file that was there
\* before the write).
C13_ReaderSeesOldOrNew ==
    io.old.exists => \A seen \in io.seen : seen = io.old \/ seen = Bytes(io.new)

\* What the code does keep: once the file is closed it holds the new document.
C13_ClosedFileIsNew == io.pc = "closed" => io.disk = Bytes(io.new)

----------------------------------------------------------------------------
(* Properties of the operations that read the manifest (SpecRead). *)

ReadOnlyEffects == {"check", "read_bootstrap"}

\* C15: with no manifest file, every operation that reads the manifest
\* (restore past the preflight, relink, installed, run_scripts, apply_icons)
\* raises BootstrapMissingError, runs no script, tap, install, link or icon
\* action, and does not create the file.
C15_MissingManifestIsTyped ==
    ~pre.exists =>
        /\ ~bootstrap.exists
        /\ last.op # "none" => last.err = "BootstrapMissingError"
        /\ pc \notin {"idle", "read"} => pc = "error" /\ err = "BootstrapMissingError"
        /\ rl.pc # "idle" => rl.pc = "error" /\ rl.err = "BootstrapMissingError"
        /\ \A i \in 1..Len(effects) : effects[i].kind \in ReadOnlyEffects
        /\ fs \in RestoreFs

\* C15 for the operations that read through read_bootstrap: all of them but
\* apply_icons.
C15_MissingManifestIsTypedButIcons ==
    ~pre.exists /\ last.op # "apply_icons" =>
        /\ ~bootstrap.exists
        /\ last.op # "none" => last.err = "BootstrapMissingError"
        /\ pc \notin {"idle", "read"} => pc = "error" /\ err = "BootstrapMissingError"
        /\ rl.pc # "idle" => rl.pc = "error" /\ rl.err = "BootstrapMissingError"
        /\ \A i \in 1..Len(effects) : effects[i].kind \in ReadOnlyEffects
        /\ fs \in RestoreFs

====
